---- MODULE Spec2Model ----
(***************************************************************************)
(* Model of the rebalance drift engine of FinPort-AI                       *)
(* (src/models/rebalance.py, src/utils/db.py).                             *)
(*                                                                         *)
(* Numbers.  Percentages are fixed-point integers in hundredths of a       *)
(* percentage point (40.0 % is 4000), which is the precision round(x, 2)   *)
(* leaves.  An unrounded percentage value / total * 100 is kept as the     *)
(* pair (value, total) and rounded where the code rounds it.  Ties round   *)
(* half-to-even, as Python's round() and format() do on an exactly         *)
(* representable value.  class_value is an integer amount.                 *)
(*                                                                         *)
(* Strings.  The em dash of the reason prefix is written "--" because a    *)
(* TLA+ string holds ASCII only.                                           *)
(***************************************************************************)
EXTENDS Integers, Sequences, FiniteSets, TLC

\* ------------------------------------------------------------------ bounds
MaxRows   == 2   \* allocation rows of the freely enumerated portfolio
MaxRuns   == 2   \* HTTP requests served in one behaviour
MaxAssign == 2   \* advisor assignments in the freely enumerated join
MaxDate   == 3   \* dates are 1..MaxDate
MaxProcs  == 2   \* request-handling threads of the server

Procs == 1..MaxProcs
Dates == 1..MaxDate
NoDate == 0      \* SQL NULL of Client_Advisor.end_date

\* -------------------------------------------------------- program constants
TargetOrder ==
  <<"Equity", "ETF", "Fixed Income", "Crypto", "Real Estate", "Commodity", "Other">>

TargetClasses == {TargetOrder[i] : i \in 1..Len(TargetOrder)}

\* Mutant: the target weights add up to 99%.
TargetsShortOfHundred ==
  [c \in TargetClasses |->
     CASE c = "Equity"       -> 4000
       [] c = "ETF"          -> 2500
       [] c = "Fixed Income" -> 1400
       [] OTHER              -> 500]

TARGET_ALLOCATIONS ==
  [c \in TargetClasses |->
     CASE c = "Equity"       -> 4000
       [] c = "ETF"          -> 2500
       [] c = "Fixed Income" -> 1500
       [] OTHER              -> 500]

DRIFT_THRESHOLD == 1000

DefaultAdvisor == 1

\* ------------------------------------------------------------------- state
VARIABLES
  vw_asset_allocation,  \* the view's rows, in the order a SELECT returns them
  client_advisor,       \* Portfolio x Account x Client_Advisor: set of joined rows
  curdate,              \* the current date (CURDATE() and date.today())
  Rebalance_Log,        \* the committed rows of the table, oldest first
  requests,             \* drift_threshold of each POST /ai/rebalance not yet served
  workers,              \* the threads that serve requests
  pc,                   \* per thread: where recommend_rebalance stands
  drift_threshold,      \* per thread: the argument
  df, advisor_map, today, recommendations, log_rows, logs_written,   \* the locals
  drifts,               \* per thread: the drifts dict of each analysed portfolio
  conn_open,            \* per thread: whether a connection is open
  pending,              \* per thread: rows inserted on the connection, uncommitted
  commits,              \* per thread: conn.commit() calls issued by the invocation
  opened,               \* per thread: connections opened by the invocation
  closed,               \* per thread: connections closed by the invocation
  log_at_start,         \* per thread: Rebalance_Log when the invocation started
  done                  \* finished invocations, oldest first

env   == <<vw_asset_allocation, client_advisor, curdate, workers>>
local == <<drift_threshold, df, advisor_map, today, recommendations, log_rows,
           logs_written, drifts>>
vars  == <<vw_asset_allocation, client_advisor, curdate, Rebalance_Log, requests,
           workers, pc, drift_threshold, df, advisor_map, today, recommendations,
           log_rows, logs_written, drifts, conn_open, pending, commits, opened,
           closed, log_at_start, done>>

\* ------------------------------------------------------------ pure helpers
Abs(x) == IF x < 0 THEN -x ELSE x

\* n / d rounded to the nearest integer, ties to even (d # 0).
RoundDiv(n, d) ==
  LET nn == IF d < 0 THEN -n ELSE n
      dd == Abs(d)
      q  == nn \div dd
      r  == nn % dd
  IN  IF 2 * r < dd THEN q
      ELSE IF 2 * r > dd THEN q + 1
      ELSE IF q % 2 = 0 THEN q ELSE q + 1

\* Mutant: the total adds magnitudes, so a short position does not offset.
RECURSIVE SumValuesMagnitude(_)
SumValuesMagnitude(rows) ==
  IF rows = <<>> THEN 0
  ELSE Abs(Head(rows).class_value) + SumValuesMagnitude(Tail(rows))

RECURSIVE SumValues(_)
SumValues(rows) ==
  IF rows = <<>> THEN 0
  ELSE Head(rows).class_value + SumValues(Tail(rows))

\* Ascending sequence of the elements of a finite set of integers.
RECURSIVE SortedSeq(_)
SortedSeq(S) ==
  IF S = {} THEN <<>>
  ELSE LET m == CHOOSE x \in S : \A y \in S : x <= y
       IN  <<m>> \o SortedSeq(S \ {m})

IsPrefix(s, t) == Len(s) <= Len(t) /\ SubSeq(t, 1, Len(s)) = s

\* ------------------------------------------------------------ formatting
\* format(h / 100, ".1f") for h in hundredths: one decimal, "-" kept for a
\* negative value even when it rounds to zero (Python prints -0.0).
Fmt1(h) ==
  LET t == RoundDiv(Abs(h), 10)
  IN  (IF h < 0 THEN "-" ELSE "") \o ToString(t \div 10) \o "." \o ToString(t % 10)

\* format(h / 100, "+.1f"): as Fmt1, with an explicit "+" for h >= 0.
FmtSigned1(h) == (IF h < 0 THEN "" ELSE "+") \o Fmt1(h)

RECURSIVE Join(_, _)
Join(parts, sep) ==
  IF parts = <<>> THEN ""
  ELSE IF Len(parts) = 1 THEN parts[1]
  ELSE parts[1] \o sep \o Join(Tail(parts), sep)

\* ------------------------------------------------- drift calculator (pure)
\* df.groupby("portfolio_id"): the distinct ids in ascending order.
GroupIds(frame) == SortedSeq({frame[i].portfolio_id : i \in 1..Len(frame)})

Group(frame, pid) == SelectSeq(frame, LAMBDA r : r.portfolio_id = pid)

\* The dict comprehension {row["asset_class"]: row["class_value"] / total * 100}:
\* one key per asset class of the group; a later row of the same class
\* overwrites an earlier one.  The value kept is the row's class_value, the
\* numerator of the unrounded percentage.
Current(group) ==
  [c \in {group[i].asset_class : i \in 1..Len(group)} |->
     LET last == CHOOSE i \in 1..Len(group) :
                   /\ group[i].asset_class = c
                   /\ \A j \in 1..Len(group) : group[j].asset_class = c => j <= i
     IN  group[last].class_value]

\* current.get(asset_class, 0.0), as the numerator over total_value.
ActualValue(current, c) == IF c \in DOMAIN current THEN current[c] ELSE 0

\* "drift = actual_pct - target_pct" before any rounding, as the numerator
\* over total_value: the drift in hundredths of a point is Drift / total.
Drift(current, c, total) ==
  ActualValue(current, c) * 10000 - TARGET_ALLOCATIONS[c] * total

\* drifts[asset_class] for every class of TARGET_ALLOCATIONS (total # 0).
Drifts(group) ==
  LET total   == SumValues(group)
      current == Current(group)
  IN  [c \in TargetClasses |->
         LET v == ActualValue(current, c)
         IN  [target_pct |-> TARGET_ALLOCATIONS[c],
              actual_pct |-> RoundDiv(v * 10000, total),
              drift_pct  |-> RoundDiv(Drift(current, c, total), total)]]

\* Mutant: the comparison is not strict.
ExceedsInclusive(drift_pct, threshold) == Abs(drift_pct) >= threshold

\* Mutant: the comparison forgets abs(), so no underweight class is flagged.
ExceedsSigned(drift_pct, threshold) == drift_pct > threshold

\* abs(v["drift_pct"]) > drift_threshold
Exceeds(drift_pct, threshold) == Abs(drift_pct) > threshold

\* flagged = {k: v for k, v in drifts.items() if ...}
Flagged(table, threshold) ==
  [c \in {k \in DOMAIN table : Exceeds(table[k].drift_pct, threshold)} |->
     table[c]]

\* Mutant: the flagged classes are described last key first.
KeysReversed(d) ==
  LET keys == SelectSeq(TargetOrder, LAMBDA c : c \in DOMAIN d)
  IN  [i \in 1..Len(keys) |-> keys[Len(keys) + 1 - i]]

\* Keys of a dict over asset classes in insertion order (the order of
\* TARGET_ALLOCATIONS).
KeysInOrder(d) == SelectSeq(TargetOrder, LAMBDA c : c \in DOMAIN d)

Direction(drift_pct) == IF drift_pct > 0 THEN "overweight" ELSE "underweight"

Part(ac, info) ==
  ac \o " is " \o Direction(info.drift_pct) \o " at " \o Fmt1(info.actual_pct)
     \o "% (target " \o Fmt1(info.target_pct) \o "%, drift "
     \o FmtSigned1(info.drift_pct) \o "%)"

Parts(flagged) ==
  LET keys == KeysInOrder(flagged)
  IN  [i \in 1..Len(keys) |-> Part(keys[i], flagged[keys[i]])]

Reason(flagged) == "Rebalancing required -- " \o Join(Parts(flagged), "; ") \o "."

\* advisor_map.get(portfolio_id, 1)
AdvisorOf(amap, pid) ==
  IF pid \in DOMAIN amap THEN amap[pid] ELSE DefaultAdvisor

NewLogRow(pid, advisor_id, date, reason) ==
  [portfolio_id |-> pid, advisor_id |-> advisor_id, rebalance_date |-> date,
   reason |-> reason, status |-> "Pending"]

NewRecommendation(pid, group, flagged, reason) ==
  [portfolio_id |-> pid, portfolio_name |-> group[1].portfolio_name,
   total_value |-> SumValues(group), flagged_classes |-> flagged, reason |-> reason]

\* "if total_value == 0: continue"
SkipsZero(group) == SumValues(group) = 0

\* Mutant: the check for an empty flagged dict is missing.
SkipsEmptyNever(flagged) == FALSE

\* "if not flagged: continue"
SkipsEmpty(flagged) == DOMAIN flagged = {}

\* The for-loop over df.groupby("portfolio_id"): the locals recommendations
\* and log_rows, and the drifts dict of each portfolio, after the groups ids.
RECURSIVE Loop(_, _, _, _, _, _)
Loop(ids, frame, amap, date, threshold, acc) ==
  IF ids = <<>> THEN acc
  ELSE
    LET pid   == Head(ids)
        group == Group(frame, pid)
    IN  IF SkipsZero(group)
        THEN Loop(Tail(ids), frame, amap, date, threshold, acc)
        ELSE
          LET table  == Drifts(group)
              flagged == Flagged(table, threshold)
              seen    == [acc EXCEPT !.drifts = Append(@, [portfolio_id |-> pid, drifts |-> table])]
          IN  IF SkipsEmpty(flagged)
              THEN Loop(Tail(ids), frame, amap, date, threshold, seen)
              ELSE
                LET reason == Reason(flagged)
                IN  Loop(Tail(ids), frame, amap, date, threshold,
                         [seen EXCEPT
                            !.log_rows = Append(@, NewLogRow(pid, AdvisorOf(amap, pid),
                                                             date, reason)),
                            !.recommendations =
                               Append(@, NewRecommendation(pid, group, flagged, reason))])

NoLocals == [recommendations |-> <<>>, log_rows |-> <<>>, drifts |-> <<>>]

\* Mutant: portfolios that already have a row in the log are not analysed again.
AnalyseSkipLogged(frame, amap, date, threshold) ==
  Loop(GroupIds(SelectSeq(frame, LAMBDA r :
                   \A i \in 1..Len(Rebalance_Log) :
                      Rebalance_Log[i].portfolio_id # r.portfolio_id)),
       frame, amap, date, threshold, NoLocals)

Analyse(frame, amap, date, threshold) ==
  Loop(GroupIds(frame), frame, amap, date, threshold, NoLocals)

\* Mutant: only the portfolios the loop does not skip for a zero total are
\* counted.
NUniqueNonZero(frame) ==
  Cardinality({pid \in {frame[i].portfolio_id : i \in 1..Len(frame)} :
                 SumValues(SelectSeq(frame, LAMBDA r : r.portfolio_id = pid)) # 0})

\* df["portfolio_id"].nunique()
NUnique(frame) == Cardinality({frame[i].portfolio_id : i \in 1..Len(frame)})

EmptyResult ==
  [portfolios_analysed |-> 0, portfolios_flagged |-> 0, logs_written |-> 0,
   recommendations |-> <<>>]

\* --------------------------------------------------- advisor resolver (pure)
\* Mutant: an assignment that ends today no longer counts as active.
IsActiveStrict(a, date) == a.end_date = NoDate \/ a.end_date > date

\* WHERE ca.end_date IS NULL OR ca.end_date >= CURDATE()
IsActive(a, date) == a.end_date = NoDate \/ a.end_date >= date

ActiveAssignments(joined, date) == {a \in joined : IsActive(a, date)}

\* ORDER BY p.portfolio_id, ca.is_primary DESC
InQueryOrder(a, b) ==
  \/ a.portfolio_id < b.portfolio_id
  \/ a.portfolio_id = b.portfolio_id /\ a.is_primary >= b.is_primary

\* The row sequences the query may return for the set S of joined rows: every
\* arrangement that respects the ORDER BY (rows that tie come in any order),
\* projected on the selected columns.
QueryResults(S) ==
  LET n == Cardinality(S)
      arrangements ==
        {s \in [1..n -> S] :
           /\ \A i, j \in 1..n : i # j => s[i] # s[j]
           /\ \A i, j \in 1..n : i < j => InQueryOrder(s[i], s[j])}
  IN  {[i \in 1..n |-> [portfolio_id |-> s[i].portfolio_id,
                        advisor_id   |-> s[i].advisor_id,
                        is_primary   |-> s[i].is_primary]] : s \in arrangements}

\* "if pid not in advisor_map: advisor_map[pid] = row['advisor_id']"
FirstRowWins(rows) ==
  [pid \in {rows[i].portfolio_id : i \in 1..Len(rows)} |->
     LET first == CHOOSE i \in 1..Len(rows) :
                    /\ rows[i].portfolio_id = pid
                    /\ \A j \in 1..Len(rows) : rows[j].portfolio_id = pid => i <= j
     IN  rows[first].advisor_id]

NoMap == [x \in {} |-> 0]

\* ---------------------------------------------------------------- actions
\* conn.close() at the end of a with block: the connections thread p has
\* closed so far, counting the one it holds.
Close(p) == IF conn_open[p] THEN closed[p] + 1 ELSE closed[p]

\* Mutant: managed_conn without try/finally, so that an exception inside the
\* with block skips conn.close().
CloseUnlessRaised(p, outcome) ==
  IF outcome = "returned" THEN Close(p) ELSE closed[p]

\* managed_conn's finally clause: whatever way the invocation ends, the
\* connection it holds is closed.
CloseOnExit(p, outcome) == Close(p)

\* The record of a finished invocation of thread p.
Finished(p, outcome, result, commits_issued, table) ==
  [thread |-> p, drift_threshold |-> drift_threshold[p], outcome |-> outcome,
   result |-> result, df |-> df[p], drifts |-> drifts[p], log_rows |-> log_rows[p],
   logs_written |-> logs_written[p], commits |-> commits_issued,
   opened |-> opened[p], closed |-> CloseOnExit(p, outcome), stage |-> pc[p],
   today |-> today[p],
   log_at_start |-> log_at_start[p], log_at_end |-> table]

\* The invocation of p ends with the record rec: its frame is dropped and, as
\* managed_conn's finally clause runs on every exit from a with block, its
\* connection is closed, which discards an uncommitted transaction.
Leave(p, rec) ==
  /\ done' = Append(done, rec)
  /\ pc' = [pc EXCEPT ![p] = "idle"]
  /\ drift_threshold' = [drift_threshold EXCEPT ![p] = 0]
  /\ df' = [df EXCEPT ![p] = <<>>]
  /\ advisor_map' = [advisor_map EXCEPT ![p] = NoMap]
  /\ today' = [today EXCEPT ![p] = 0]
  /\ recommendations' = [recommendations EXCEPT ![p] = <<>>]
  /\ log_rows' = [log_rows EXCEPT ![p] = <<>>]
  /\ logs_written' = [logs_written EXCEPT ![p] = 0]
  /\ drifts' = [drifts EXCEPT ![p] = <<>>]
  /\ conn_open' = [conn_open EXCEPT ![p] = FALSE]
  /\ pending' = [pending EXCEPT ![p] = <<>>]
  /\ commits' = [commits EXCEPT ![p] = 0]
  /\ opened' = [opened EXCEPT ![p] = 0]
  /\ closed' = [closed EXCEPT ![p] = 0]
  /\ log_at_start' = [log_at_start EXCEPT ![p] = <<>>]

\* An exception leaves recommend_rebalance: no result.
Raise(p) == Leave(p, Finished(p, "raised", <<>>, commits[p], Rebalance_Log))

\* run_rebalance calls recommend_rebalance(drift_threshold).
Start(p) ==
  /\ p \in workers
  /\ pc[p] = "idle"
  /\ requests # <<>>
  /\ requests' = Tail(requests)
  /\ pc' = [pc EXCEPT ![p] = "get_allocations"]
  /\ drift_threshold' = [drift_threshold EXCEPT ![p] = Head(requests)]
  /\ log_at_start' = [log_at_start EXCEPT ![p] = Rebalance_Log]
  /\ UNCHANGED <<env, Rebalance_Log, df, advisor_map, today, recommendations,
                 log_rows, logs_written, drifts, conn_open, pending, commits,
                 opened, closed, done>>

AtWith(p) == pc[p] \in {"get_allocations", "get_advisor_map", "write_log"}

\* managed_conn(): get_connection() returns a connection.
Connect(p) ==
  /\ AtWith(p)
  /\ ~conn_open[p]
  /\ conn_open' = [conn_open EXCEPT ![p] = TRUE]
  /\ pending' = [pending EXCEPT ![p] = <<>>]
  /\ opened' = [opened EXCEPT ![p] = @ + 1]
  /\ UNCHANGED <<env, Rebalance_Log, requests, pc, local, commits, closed,
                 log_at_start, done>>

\* managed_conn(): get_connection() raises; the error leaves recommend_rebalance.
ConnectFail(p) ==
  /\ AtWith(p)
  /\ ~conn_open[p]
  /\ Raise(p)
  /\ UNCHANGED <<env, Rebalance_Log, requests>>

\* _get_allocations() returns; "if df.empty" is decided.
GetAllocations(p) ==
  /\ pc[p] = "get_allocations"
  /\ conn_open[p]
  /\ df' = [df EXCEPT ![p] = vw_asset_allocation]
  /\ conn_open' = [conn_open EXCEPT ![p] = FALSE]
  /\ closed' = [closed EXCEPT ![p] = Close(p)]
  /\ pc' = [pc EXCEPT ![p] =
              IF vw_asset_allocation = <<>> THEN "return_empty" ELSE "get_advisor_map"]
  /\ UNCHANGED <<env, Rebalance_Log, requests, drift_threshold, advisor_map, today,
                 recommendations, log_rows, logs_written, drifts, pending, commits,
                 opened, log_at_start, done>>

\* Mutant: a read that raises is tried again, up to three connections.
QueryFailRetried(p) ==
  /\ pc[p] \in {"get_allocations", "get_advisor_map"}
  /\ conn_open[p]
  /\ IF opened[p] < 3
     THEN /\ conn_open' = [conn_open EXCEPT ![p] = FALSE]
          /\ closed' = [closed EXCEPT ![p] = Close(p)]
          /\ UNCHANGED <<pc, local, pending, commits, opened, log_at_start, done>>
     ELSE Raise(p)
  /\ UNCHANGED <<env, Rebalance_Log, requests>>

\* cur.execute / cur.fetchall of either read raises.
QueryFail(p) ==
  /\ pc[p] \in {"get_allocations", "get_advisor_map"}
  /\ conn_open[p]
  /\ Raise(p)
  /\ UNCHANGED <<env, Rebalance_Log, requests>>

\* The early return on an empty DataFrame.
ReturnEmpty(p) ==
  /\ pc[p] = "return_empty"
  /\ Leave(p, Finished(p, "returned", <<EmptyResult>>, commits[p], Rebalance_Log))
  /\ UNCHANGED <<env, Rebalance_Log, requests>>

\* _get_advisor_map() returns, then today = datetime.date.today().
GetAdvisorMap(p) ==
  /\ pc[p] = "get_advisor_map"
  /\ conn_open[p]
  /\ \E rows \in QueryResults(ActiveAssignments(client_advisor, curdate)) :
       advisor_map' = [advisor_map EXCEPT ![p] = FirstRowWins(rows)]
  /\ today' = [today EXCEPT ![p] = curdate]
  /\ conn_open' = [conn_open EXCEPT ![p] = FALSE]
  /\ closed' = [closed EXCEPT ![p] = Close(p)]
  /\ pc' = [pc EXCEPT ![p] = "analyse"]
  /\ UNCHANGED <<env, Rebalance_Log, requests, drift_threshold, df, recommendations,
                 log_rows, logs_written, drifts, pending, commits, opened,
                 log_at_start, done>>

\* The loop over the portfolios, then logs_written = 0.
AnalysePortfolios(p) ==
  /\ pc[p] = "analyse"
  /\ LET out == Analyse(df[p], advisor_map[p], today[p], drift_threshold[p])
     IN  /\ recommendations' = [recommendations EXCEPT ![p] = out.recommendations]
         /\ log_rows' = [log_rows EXCEPT ![p] = out.log_rows]
         /\ drifts' = [drifts EXCEPT ![p] = out.drifts]
  /\ logs_written' = [logs_written EXCEPT ![p] = 0]
  /\ pc' = [pc EXCEPT ![p] = "write_log"]
  /\ UNCHANGED <<env, Rebalance_Log, requests, drift_threshold, df, advisor_map,
                 today, conn_open, pending, commits, opened, closed, log_at_start,
                 done>>

\* Mutant: the connection runs with autocommit on, so every INSERT is
\* persisted as it executes.
InsertAutocommit(p) ==
  /\ pc[p] = "write_log"
  /\ conn_open[p]
  /\ logs_written[p] < Len(log_rows[p])
  /\ Rebalance_Log' = Append(Rebalance_Log, log_rows[p][logs_written[p] + 1])
  /\ logs_written' = [logs_written EXCEPT ![p] = @ + 1]
  /\ UNCHANGED <<env, requests, pc, drift_threshold, df, advisor_map, today,
                 recommendations, log_rows, drifts, conn_open, pending, commits,
                 opened, closed, log_at_start, done>>

\* One iteration of "for row in log_rows": the INSERT joins the connection's
\* open transaction (mysql.connector connects with autocommit off).
Insert(p) ==
  /\ pc[p] = "write_log"
  /\ conn_open[p]
  /\ logs_written[p] < Len(log_rows[p])
  /\ pending' = [pending EXCEPT ![p] = Append(@, log_rows[p][logs_written[p] + 1])]
  /\ logs_written' = [logs_written EXCEPT ![p] = @ + 1]
  /\ UNCHANGED <<env, Rebalance_Log, requests, pc, drift_threshold, df, advisor_map,
                 today, recommendations, log_rows, drifts, conn_open, commits,
                 opened, closed, log_at_start, done>>

\* cur.execute(insert_sql, ...) raises: conn.close() without a commit rolls the
\* transaction back.
InsertFail(p) ==
  /\ pc[p] = "write_log"
  /\ conn_open[p]
  /\ logs_written[p] < Len(log_rows[p])
  /\ Raise(p)
  /\ UNCHANGED <<env, Rebalance_Log, requests>>

\* The result dict of the normal return.
Result(p) ==
  [portfolios_analysed |-> NUnique(df[p]),
   portfolios_flagged  |-> Len(recommendations[p]),
   logs_written        |-> logs_written[p],
   recommendations     |-> recommendations[p]]

\* Mutant: a row equal to one already in the table is not inserted again.
CommittedIgnoringDuplicates(table, rows) ==
  table \o SelectSeq(rows, LAMBDA r : \A i \in 1..Len(table) : table[i] # r)

\* What conn.commit() makes of the table.
Committed(table, rows) == table \o rows

\* Mutant: the commit writes back the table as the invocation first saw it
\* plus its own rows, so rows committed meanwhile by another run are lost.
CommitFromSnapshot(p) ==
  /\ pc[p] = "write_log"
  /\ conn_open[p]
  /\ logs_written[p] = Len(log_rows[p])
  /\ Rebalance_Log' = Committed(log_at_start[p], pending[p])
  /\ pending' = [pending EXCEPT ![p] = <<>>]
  /\ commits' = [commits EXCEPT ![p] = @ + 1]
  /\ pc' = [pc EXCEPT ![p] = "return"]
  /\ UNCHANGED <<env, requests, local, conn_open, opened, closed, log_at_start,
                 done>>

\* The loop is over and conn.commit() succeeds.
Commit(p) ==
  /\ pc[p] = "write_log"
  /\ conn_open[p]
  /\ logs_written[p] = Len(log_rows[p])
  /\ Rebalance_Log' = Committed(Rebalance_Log, pending[p])
  /\ pending' = [pending EXCEPT ![p] = <<>>]
  /\ commits' = [commits EXCEPT ![p] = @ + 1]
  /\ pc' = [pc EXCEPT ![p] = "return"]
  /\ UNCHANGED <<env, requests, local, conn_open, opened, closed, log_at_start,
                 done>>

\* conn.commit() raises.  The server has either rolled the transaction back
\* or committed it without the client learning of it.
CommitFail(p) ==
  /\ pc[p] = "write_log"
  /\ conn_open[p]
  /\ logs_written[p] = Len(log_rows[p])
  /\ \E table \in {Rebalance_Log, Committed(Rebalance_Log, pending[p])} :
       /\ Rebalance_Log' = table
       /\ Leave(p, Finished(p, "raised", <<>>, commits[p] + 1, table))
  /\ UNCHANGED <<env, requests>>

\* The with block ends (the connection is closed) and the dict is returned.
Return(p) ==
  /\ pc[p] = "return"
  /\ Leave(p, Finished(p, "returned", <<Result(p)>>, commits[p], Rebalance_Log))
  /\ UNCHANGED <<env, Rebalance_Log, requests>>

\* ------------------------------------------------------------------ inputs
PortfolioName(pid) == "P" \o ToString(pid)

Row(pid, class, value) ==
  [portfolio_id |-> pid, portfolio_name |-> PortfolioName(pid),
   asset_class |-> class, class_value |-> value]

Assignment(pid, advisor, primary, end) ==
  [portfolio_id |-> pid, advisor_id |-> advisor, is_primary |-> primary,
   end_date |-> end]

\* Rows of one portfolio: the scenario of the specification's section 8,
\* an allocation on target, a portfolio worth nothing, and one a hundredth of
\* a point away from the first.
SixtyForty(pid) == <<Row(pid, "Equity", 6000), Row(pid, "ETF", 4000)>>

OnTarget(pid) ==
  [i \in 1..Len(TargetOrder) |-> Row(pid, TargetOrder[i], TARGET_ALLOCATIONS[TargetOrder[i]])]

Worthless(pid) == <<Row(pid, "Equity", 0)>>

NearSixtyForty(pid) == <<Row(pid, "Equity", 5999), Row(pid, "ETF", 4001)>>

Scenarios(pid) == {<<>>, SixtyForty(pid), OnTarget(pid), Worthless(pid), NearSixtyForty(pid)}

\* Every sequence of at most MaxRows rows of one portfolio over a few asset
\* classes (one of them outside TARGET_ALLOCATIONS) and values.
FreeRows(pid) ==
  UNION {[1..n -> {Row(pid, c, v) : c \in {"Equity", "ETF", "Cash"},
                                     v \in {0, 4000, 6000, -4000}}] : n \in 0..MaxRows}

Thresholds == {0, DRIFT_THRESHOLD, 1999, 2000}

SeqsUpTo(S, n) == UNION {[1..k -> S] : k \in 1..n}

InitThreads ==
  /\ Rebalance_Log = <<>>
  /\ pc = [p \in Procs |-> "idle"]
  /\ drift_threshold = [p \in Procs |-> 0]
  /\ df = [p \in Procs |-> <<>>]
  /\ advisor_map = [p \in Procs |-> NoMap]
  /\ today = [p \in Procs |-> 0]
  /\ recommendations = [p \in Procs |-> <<>>]
  /\ log_rows = [p \in Procs |-> <<>>]
  /\ logs_written = [p \in Procs |-> 0]
  /\ drifts = [p \in Procs |-> <<>>]
  /\ conn_open = [p \in Procs |-> FALSE]
  /\ pending = [p \in Procs |-> <<>>]
  /\ commits = [p \in Procs |-> 0]
  /\ opened = [p \in Procs |-> 0]
  /\ closed = [p \in Procs |-> 0]
  /\ log_at_start = [p \in Procs |-> <<>>]
  /\ done = <<>>

\* Requests served one after the other, over a few tables.
Init ==
  /\ vw_asset_allocation \in
       {<<>>, SixtyForty(1), SixtyForty(1) \o Worthless(2),
        OnTarget(1) \o SixtyForty(2), NearSixtyForty(1) \o SixtyForty(2)}
  /\ client_advisor \in
       {{}, {Assignment(1, 2, 1, NoDate)},
        {Assignment(1, 2, 1, 1), Assignment(1, 3, 0, 3), Assignment(2, 3, 0, NoDate)}}
  /\ curdate = 2
  /\ requests \in SeqsUpTo({DRIFT_THRESHOLD, 2000}, MaxRuns)
  /\ workers = {1}
  /\ InitThreads

\* One request over every allocation table made of a free portfolio and a
\* scenario.
InitDrift ==
  /\ vw_asset_allocation \in {f \o s : f \in FreeRows(1), s \in Scenarios(2)}
  /\ client_advisor = {Assignment(1, 2, 1, NoDate)}
  /\ curdate = 2
  /\ requests \in {<<t>> : t \in Thresholds}
  /\ workers = {1}
  /\ InitThreads

\* One request over every join of at most MaxAssign assignments.
AssignmentUniverse ==
  {Assignment(1, a, f, e) : a \in {2, 3}, f \in {0, 1}, e \in Dates \cup {NoDate}}
    \cup {Assignment(2, 3, 1, NoDate)}

InitAdvisor ==
  /\ vw_asset_allocation \in {<<>>, SixtyForty(1) \o SixtyForty(2)}
  /\ client_advisor \in {S \in SUBSET AssignmentUniverse : Cardinality(S) <= MaxAssign}
  /\ curdate \in Dates
  /\ requests = <<DRIFT_THRESHOLD>>
  /\ workers = {1}
  /\ InitThreads

\* Two requests in flight at once, served by every thread of the server.
InitConcurrent ==
  /\ vw_asset_allocation \in
       {<<>>, SixtyForty(1), SixtyForty(1) \o NearSixtyForty(2)}
  /\ client_advisor \in {{}, {Assignment(1, 2, 1, NoDate)}}
  /\ curdate = 2
  /\ requests \in [1..2 -> {DRIFT_THRESHOLD, 2000}]
  /\ workers = Procs
  /\ InitThreads

Next ==
  \E p \in Procs :
    \/ Start(p)
    \/ Connect(p)
    \/ ConnectFail(p)
    \/ GetAllocations(p)
    \/ QueryFail(p)
    \/ ReturnEmpty(p)
    \/ GetAdvisorMap(p)
    \/ AnalysePortfolios(p)
    \/ Insert(p)
    \/ InsertFail(p)
    \/ Commit(p)
    \/ CommitFail(p)
    \/ Return(p)

Spec == Init /\ [][Next]_vars

SpecDrift == InitDrift /\ [][Next]_vars

SpecConcurrent == InitConcurrent /\ [][Next]_vars

SpecAdvisor == InitAdvisor /\ [][Next]_vars

\* ================================================================= claims
\* Vocabulary of the claims, stated on the inputs and on the records of the
\* finished invocations rather than through the operators of the engine.
Finishes == {done[i] : i \in 1..Len(done)}

Returns == {d \in Finishes : d.outcome = "returned"}

Recs(d) == d.result[1].recommendations

\* The rows the table gained between the start and the end of invocation d.
NewRows(d) == SubSeq(d.log_at_end, Len(d.log_at_start) + 1, Len(d.log_at_end))

PortfolioIds(rows) == {rows[i].portfolio_id : i \in 1..Len(rows)}

RowsOf(rows, pid) == {i \in 1..Len(rows) : rows[i].portfolio_id = pid}

\* Sum of class_value over the rows of portfolio pid (of class c).
RECURSIVE TotalOver(_, _)
TotalOver(rows, I) ==
  IF I = {} THEN 0
  ELSE LET i == CHOOSE x \in I : TRUE
       IN  rows[i].class_value + TotalOver(rows, I \ {i})

PortfolioTotal(rows, pid) == TotalOver(rows, RowsOf(rows, pid))

ClassTotal(rows, pid, c) ==
  TotalOver(rows, {i \in RowsOf(rows, pid) : rows[i].asset_class = c})

\* The flagged classes invocation d reports for portfolio pid (none if it
\* reports no recommendation for pid).
FlaggedOf(d, pid) ==
  UNION {DOMAIN Recs(d)[i].flagged_classes :
           i \in {k \in 1..Len(Recs(d)) : Recs(d)[k].portfolio_id = pid}}

DriftsOf(d) == {d.drifts[i] : i \in 1..Len(d.drifts)}

\* C1: a portfolio whose class_value rows sum to 0 gets no recommendation, and
\* no row of its own is put in the batch or in the rebalance log, whatever the
\* threshold and the other portfolios of the run.
C1_ZeroTotalSkipped ==
  \A d \in Finishes :
    \A pid \in PortfolioIds(d.df) :
      PortfolioTotal(d.df, pid) = 0 =>
        /\ RowsOf(d.log_rows, pid) = {}
        /\ RowsOf(NewRows(d), pid) = {}
        /\ d.outcome = "returned" => RowsOf(Recs(d), pid) = {}

\* C1 witness: a run returned a recommendation for one portfolio and none for
\* another whose non-zero rows cancel out.
C1_Witness ==
  \E d \in Returns :
    /\ Recs(d) # <<>>
    /\ \E pid \in PortfolioIds(d.df) :
         /\ PortfolioTotal(d.df, pid) = 0
         /\ \E i \in RowsOf(d.df, pid) : d.df[i].class_value # 0
         /\ RowsOf(Recs(d), pid) = {}

C3_ActualIsClassSum ==
  \A d \in Returns :
    \A pid \in PortfolioIds(d.df) :
      PortfolioTotal(d.df, pid) # 0 =>
        \E e \in DriftsOf(d) :
          /\ e.portfolio_id = pid
          /\ \A c \in TargetClasses :
               /\ e.drifts[c].actual_pct =
                    RoundDiv(ClassTotal(d.df, pid, c) * 10000, PortfolioTotal(d.df, pid))
               /\ e.drifts[c].drift_pct = e.drifts[c].actual_pct - TARGET_ALLOCATIONS[c]

\* C4 (as claimed): the single portfolio {Equity: 6000, ETF: 4000} at the
\* default threshold yields one recommendation with 4 flagged classes and one
\* log row with status "Pending".
C4_FourFlagged ==
  \A d \in Returns :
    (d.df = SixtyForty(1) /\ d.drift_threshold = DRIFT_THRESHOLD) =>
      /\ Len(Recs(d)) = 1
      /\ Cardinality(DOMAIN Recs(d)[1].flagged_classes) = 4
      /\ Len(NewRows(d)) = 1
      /\ NewRows(d)[1].status = "Pending"

\* C4 (amended): the single portfolio {Equity: 6000, ETF: 4000} at the
\* default threshold yields one recommendation with 3 flagged classes
\* (Equity, ETF, Fixed Income) and one log row with status "Pending".
C4_ThreeFlagged ==
  \A d \in Returns :
    (d.df = SixtyForty(1) /\ d.drift_threshold = DRIFT_THRESHOLD) =>
      /\ Len(Recs(d)) = 1
      /\ Recs(d)[1].portfolio_id = 1
      /\ DOMAIN Recs(d)[1].flagged_classes = {"Equity", "ETF", "Fixed Income"}
      /\ Cardinality(DOMAIN Recs(d)[1].flagged_classes) = 3
      /\ Len(NewRows(d)) = 1
      /\ NewRows(d)[1].portfolio_id = 1
      /\ NewRows(d)[1].status = "Pending"

\* C4 witness: a run over exactly that table at the default threshold returned.
C4_Witness ==
  \E d \in Returns : d.df = SixtyForty(1) /\ d.drift_threshold = DRIFT_THRESHOLD

\* The assignments of portfolio pid that have no end date or end on or after
\* the current date, and the primary ones among them.
ActiveFor(pid) ==
  {a \in client_advisor :
     a.portfolio_id = pid /\ (a.end_date = NoDate \/ ~(a.end_date < curdate))}

PrimaryFor(pid) == {a \in ActiveFor(pid) : a.is_primary = 1}

AdvisorsOf(S) == {a.advisor_id : a \in S}

\* C5: the advisor_id of a flagged portfolio's log row is the advisor of an
\* active primary assignment if there is one, else the advisor of an active
\* assignment if there is one, else the default advisor 1; so an assignment
\* that ended before the current date is never the one chosen.
C5_AdvisorResolution ==
  \A d \in Finishes :
    \A i \in 1..Len(d.log_rows) :
      LET row == d.log_rows[i]
          pid == row.portfolio_id
      IN  /\ PrimaryFor(pid) # {} => row.advisor_id \in AdvisorsOf(PrimaryFor(pid))
          /\ (PrimaryFor(pid) = {} /\ ActiveFor(pid) # {}) =>
               row.advisor_id \in AdvisorsOf(ActiveFor(pid))
          /\ ActiveFor(pid) = {} => row.advisor_id = 1

\* C5 witness: the table holds a row whose portfolio has a primary assignment
\* that has ended and a non-primary one ending today, and the row names the
\* advisor of the latter.
C5_Witness ==
  \E i \in 1..Len(Rebalance_Log) :
    LET row == Rebalance_Log[i]
    IN  /\ \E a \in client_advisor :
             /\ a.portfolio_id = row.portfolio_id
             /\ a.is_primary = 1
             /\ a.end_date # NoDate
             /\ a.end_date < curdate
             /\ a.advisor_id # row.advisor_id
        /\ \E a \in client_advisor :
             /\ a.portfolio_id = row.portfolio_id
             /\ a.is_primary = 0
             /\ a.end_date = curdate
             /\ a.advisor_id = row.advisor_id

\* C6: in the result of a run every portfolio_id appears in at most one
\* recommendation and in at most one new log row, every recommendation has a
\* non-empty flagged_classes, and a portfolio with no class over the
\* threshold gets neither a recommendation nor a log row.
C6_OncePerRunNonEmpty ==
  \A d \in Returns :
    /\ \A i, j \in 1..Len(Recs(d)) :
         Recs(d)[i].portfolio_id = Recs(d)[j].portfolio_id => i = j
    /\ \A i, j \in 1..Len(NewRows(d)) :
         NewRows(d)[i].portfolio_id = NewRows(d)[j].portfolio_id => i = j
    /\ \A i \in 1..Len(Recs(d)) : DOMAIN Recs(d)[i].flagged_classes # {}
    /\ \A e \in DriftsOf(d) :
         (\A c \in TargetClasses :
            /\ e.drifts[c].drift_pct <= d.drift_threshold
            /\ -e.drifts[c].drift_pct <= d.drift_threshold) =>
           /\ RowsOf(Recs(d), e.portfolio_id) = {}
           /\ RowsOf(NewRows(d), e.portfolio_id) = {}

\* C6 witness: a run over a portfolio that is exactly on target and another
\* that is not returned a recommendation for the second alone.
C6_Witness ==
  \E d \in Returns :
    /\ Group(d.df, 2) = OnTarget(2)
    /\ Len(Recs(d)) = 1
    /\ Recs(d)[1].portfolio_id = 1
    /\ RowsOf(NewRows(d), 2) = {}

\* C7: on a successful return the table gained exactly one row per
\* recommendation, in order, and nothing else changed: logs_written is the
\* number of rows gained, portfolios_flagged and the number of
\* recommendations; each row carries its recommendation's portfolio_id and
\* reason, the current date and status "Pending".
C7_OneRowPerRecommendation ==
  \A d \in Returns :
    LET r == d.result[1]
    IN  /\ IsPrefix(d.log_at_start, d.log_at_end)
        /\ r.logs_written = Len(NewRows(d))
        /\ r.logs_written = r.portfolios_flagged
        /\ r.logs_written = Len(r.recommendations)
        /\ \A i \in 1..Len(NewRows(d)) :
             /\ NewRows(d)[i].portfolio_id = r.recommendations[i].portfolio_id
             /\ NewRows(d)[i].reason = r.recommendations[i].reason
             /\ NewRows(d)[i].rebalance_date = curdate
             /\ NewRows(d)[i].status = "Pending"

\* C7 witness: a run returned two recommendations into a table that already
\* held rows.
C7_Witness ==
  \E d \in Returns :
    /\ d.log_at_start # <<>>
    /\ d.result[1].logs_written = 2
    /\ Len(d.log_at_end) = Len(d.log_at_start) + 2

\* C8: the log write is all-or-nothing with a single commit: an invocation
\* issues at most one commit and only once every insert of the batch has
\* succeeded; an invocation that fails returns no result and issues no commit
\* after a failed insert; and the table never holds a non-empty strict subset
\* of an invocation's batch.
C8_AllOrNothing ==
  /\ \A p \in Procs :
       /\ commits[p] <= 1
       /\ commits[p] = 1 => logs_written[p] = Len(log_rows[p])
       /\ pc[p] # "idle" =>
            Rebalance_Log \in {log_at_start[p], log_at_start[p] \o log_rows[p]}
       /\ (pc[p] # "idle" /\ commits[p] = 0) => Rebalance_Log = log_at_start[p]
  /\ \A d \in Finishes :
       /\ d.commits <= 1
       /\ d.commits = 1 => d.logs_written = Len(d.log_rows)
       /\ d.outcome = "raised" => d.result = <<>>
       /\ d.outcome = "returned" => (d.stage = "return_empty" \/ d.commits = 1)
       /\ d.log_at_end \in {d.log_at_start, d.log_at_start \o d.log_rows}
       /\ d.commits = 0 => d.log_at_end = d.log_at_start

\* C8 witness: an insert failed after another of the same batch had
\* succeeded, and the table is as it was when the invocation started.
C8_Witness ==
  \E d \in Finishes :
    /\ d.outcome = "raised"
    /\ d.stage = "write_log"
    /\ d.logs_written = 1
    /\ Len(d.log_rows) = 2
    /\ d.commits = 0
    /\ d.log_at_end = d.log_at_start

\* Number of rows of portfolio pid in a table.
RowCount(rows, pid) == Cardinality(RowsOf(rows, pid))

\* C9: the log is append-only: the table an invocation started from is a
\* prefix of the table it leaves, and of the table ever after; and every run
\* that returns adds one row for each portfolio it flags, duplicates
\* included, so after n returned runs that flagged a portfolio the table
\* holds at least n rows for it, and exactly n when no run failed and none
\* is under way.
C9_AppendOnly ==
  /\ \A p \in Procs : pc[p] # "idle" => IsPrefix(log_at_start[p], Rebalance_Log)
  /\ \A d \in Finishes :
       /\ IsPrefix(d.log_at_start, d.log_at_end)
       /\ IsPrefix(d.log_at_end, Rebalance_Log)
  /\ \A pid \in PortfolioIds(vw_asset_allocation) :
       LET n == Cardinality({i \in 1..Len(done) :
                               /\ done[i].outcome = "returned"
                               /\ RowsOf(done[i].log_rows, pid) # {}})
       IN  /\ RowCount(Rebalance_Log, pid) >= n
           /\ (Returns = Finishes /\ \A p \in Procs : pc[p] = "idle") =>
                RowCount(Rebalance_Log, pid) = n

\* C9 witness: two runs returned and the table holds the same row twice.
C9_Witness ==
  /\ Len(done) = 2
  /\ Returns = Finishes
  /\ \E i, j \in 1..Len(Rebalance_Log) : i < j /\ Rebalance_Log[i] = Rebalance_Log[j]

\* What a run computed for each portfolio: the flagged classes and the reason.
Computed(d) ==
  [i \in 1..Len(Recs(d)) |->
     [portfolio_id    |-> Recs(d)[i].portfolio_id,
      flagged_classes |-> Recs(d)[i].flagged_classes,
      reason          |-> Recs(d)[i].reason]]

Proceeds(p) ==
  \/ Connect(p)
  \/ GetAllocations(p)
  \/ ReturnEmpty(p)
  \/ GetAdvisorMap(p)
  \/ Insert(p)
  \/ Commit(p)
  \/ Return(p)

\* Number of positions of a sequence that hold the row r.
Occurrences(rows, r) == Cardinality({i \in 1..Len(rows) : rows[i] = r})

RECURSIVE SumOver(_, _)
SumOver(f, S) ==
  IF S = {} THEN 0
  ELSE LET x == CHOOSE y \in S : TRUE
       IN  f[x] + SumOver(f, S \ {x})

\* How often the row r has been committed: once for each time it is in the
\* batch of a run that has returned or has committed and is about to return.
TimesCommitted(r) ==
  SumOver([i \in 1..Len(done) |-> Occurrences(done[i].log_rows, r)], 1..Len(done))
    + SumOver([p \in Procs |-> IF pc[p] = "return" THEN Occurrences(log_rows[p], r) ELSE 0],
              Procs)

RowsInPlay ==
  {Rebalance_Log[i] : i \in 1..Len(Rebalance_Log)}
    \cup UNION {{d.log_rows[i] : i \in 1..Len(d.log_rows)} : d \in Finishes}
    \cup UNION {{log_rows[p][i] : i \in 1..Len(log_rows[p])} : p \in Procs}

\* C11: concurrent invocations are not coordinated: in every interleaving a
\* run that is at a database step or at its return can always take that
\* step, whatever the other run is doing, so neither waits for the other and
\* both complete; and as long as nothing has failed the
\* table holds every row of every committed batch exactly as often as it was
\* committed, so that no row is lost or merged and a portfolio flagged by
\* both runs ends with two rows.
C11_Uncoordinated ==
  /\ \A p \in workers : pc[p] \notin {"idle", "analyse"} => ENABLED Proceeds(p)
  /\ Finishes = Returns =>
       \A r \in RowsInPlay : Occurrences(Rebalance_Log, r) = TimesCommitted(r)

\* C11 witness: two runs that both started on the empty table, hence
\* overlapped, have both returned, and the table holds the same row twice.
C11_Witness ==
  /\ Len(done) = 2
  /\ Finishes = Returns
  /\ done[1].thread # done[2].thread
  /\ done[1].log_at_start = <<>> /\ done[2].log_at_start = <<>>
  /\ done[1].log_rows # <<>>
  /\ \E i, j \in 1..Len(Rebalance_Log) : i < j /\ Rebalance_Log[i] = Rebalance_Log[j]

\* Connections thread p holds open.
OpenConnections(p) == opened[p] - closed[p]

\* C12: every connection an invocation opens is closed before the invocation
\* ends, whether it returns or raises (a failed connect, query, insert or
\* commit), and an invocation never holds more than one open connection: its
\* connections are used one after another.
C12_ConnectionsClosed ==
  /\ \A d \in Finishes : d.closed = d.opened
  /\ \A p \in Procs :
       /\ OpenConnections(p) \in {0, 1}
       /\ conn_open[p] <=> OpenConnections(p) = 1
       /\ pc[p] \in {"idle", "return_empty", "analyse"} => OpenConnections(p) = 0

\* C12 witness: one invocation has returned after opening its three
\* connections and another has raised from a failed insert on its third.
C12_Witness ==
  /\ \E d \in Finishes : d.outcome = "returned" /\ d.opened = 3
  /\ \E d \in Finishes : d.outcome = "raised" /\ d.opened >= 1
  /\ \E d \in Finishes :
       /\ d.outcome = "raised" /\ d.stage = "write_log" /\ d.opened = 3
       /\ d.logs_written < Len(d.log_rows)

\* The positions of the string s at which the string t begins.
Positions(s, t) ==
  {i \in 1..(Len(s) - Len(t) + 1) : SubSeq(s, i, i + Len(t) - 1) = t}

\* The pieces of the string s between the occurrences of the separator sep.
Split(s, sep) ==
  LET cuts == SortedSeq(Positions(s, sep))
      n    == Len(cuts) + 1
  IN  [i \in 1..n |->
         SubSeq(s, IF i = 1 THEN 1 ELSE cuts[i - 1] + Len(sep),
                   IF i = n THEN Len(s) ELSE cuts[i] - 1)]

StartsWith(s, t) == SubSeq(s, 1, Len(t)) = t

IndexIn(seq, x) == CHOOSE i \in 1..Len(seq) : seq[i] = x

\* C13: the reason of a recommendation starts with "Rebalancing required -- "
\* and ends with "."; between the two stand, separated by "; ", exactly one
\* description for every flagged class and none for any other class, in the
\* order of the target-weights table; and a flagged class is called
\* "overweight" if its drift_pct is above 0 and "underweight" otherwise.
C13_ReasonString ==
  \A d \in Returns :
    \A k \in 1..Len(Recs(d)) :
      LET s       == Recs(d)[k].reason
          flagged == Recs(d)[k].flagged_classes
          prefix  == "Rebalancing required -- "
          parts   == Split(SubSeq(s, Len(prefix) + 1, Len(s) - 1), "; ")
          classes == SelectSeq(TargetOrder, LAMBDA c : c \in DOMAIN flagged)
      IN  /\ StartsWith(s, prefix)
          /\ SubSeq(s, Len(s), Len(s)) = "."
          /\ Len(parts) = Len(classes)
          /\ \A i \in 1..Len(parts) :
               LET c == classes[i]
               IN  /\ Cardinality(Positions(parts[i], " is ")) = 1
                   /\ StartsWith(parts[i], c \o " is overweight at ")
                        <=> flagged[c].drift_pct > 0
                   /\ StartsWith(parts[i], c \o " is underweight at ")
                        <=> flagged[c].drift_pct <= 0

\* C13 witness: a recommendation flags an overweight class and, later in the
\* table's order, an underweight one, and leaves a class unflagged.
C13_Witness ==
  \E d \in Returns :
    \E k \in 1..Len(Recs(d)) :
      LET flagged == Recs(d)[k].flagged_classes
      IN  /\ \E c1, c2 \in DOMAIN flagged :
               /\ IndexIn(TargetOrder, c1) < IndexIn(TargetOrder, c2)
               /\ flagged[c1].drift_pct > 0
               /\ flagged[c2].drift_pct < 0
          /\ DOMAIN flagged # TargetClasses

Reads == {"get_allocations", "get_advisor_map"}

\* How many connections an invocation has opened at most by the time it is
\* at the given position, each database step being tried once.
Attempts(stage) ==
  CASE stage = "get_allocations" -> 1
    [] stage = "get_advisor_map" -> 2
    [] OTHER                     -> 3

\* C14: the steps of one invocation are ordered: before the allocation read
\* is over nothing else has been read; the advisor read starts only after the
\* allocation read has returned its rows and closed its connection; and an
\* insert is made only after both reads are over.  An invocation that fails
\* in a read ends raised, having tried each read at most once, with nothing
\* inserted or committed and the rebalance log as it found it.
C14_StepsOrdered ==
  /\ \A p \in Procs :
       /\ pc[p] = "get_allocations" =>
            df[p] = <<>> /\ advisor_map[p] = NoMap /\ closed[p] = 0
       /\ pc[p] = "get_advisor_map" =>
            df[p] = vw_asset_allocation /\ df[p] # <<>> /\ closed[p] = 1
       /\ pc[p] \in Reads => pending[p] = <<>> /\ logs_written[p] = 0
       /\ (pending[p] # <<>> \/ logs_written[p] > 0) =>
            pc[p] \in {"write_log", "return"} /\ closed[p] = 2
       /\ opened[p] <= Attempts(pc[p])
  /\ \A d \in Finishes :
       /\ d.opened <= Attempts(d.stage)
       /\ d.stage \in Reads =>
            /\ d.outcome = "raised"
            /\ d.result = <<>>
            /\ d.logs_written = 0
            /\ d.commits = 0
            /\ d.log_at_end = d.log_at_start

\* C14 witness: after a run that wrote to the log, a run whose allocation
\* read succeeded has failed in its advisor read.
C14_Witness ==
  \E i, j \in 1..Len(done) :
    /\ i < j
    /\ done[i].outcome = "returned" /\ done[i].logs_written > 0
    /\ done[j].outcome = "raised" /\ done[j].stage = "get_advisor_map"
    /\ done[j].opened = 2
    /\ done[j].df # <<>>
    /\ done[j].log_at_start # <<>>

\* C15: a run that returns reports 0 <= portfolios_flagged <=
\* portfolios_analysed, where portfolios_analysed is the number of distinct
\* portfolio ids among the allocation rows, those of zero total included, and
\* portfolios_flagged the number of recommendations; a run whose allocation
\* read returned no rows reports zeros and no recommendation, and has neither
\* read the advisors nor written to the log: it opened the one connection of
\* the allocation read and issued no insert and no commit.
C15_Counts ==
  /\ \A d \in Returns :
       LET r == d.result[1]
       IN  /\ r.portfolios_analysed = Cardinality(PortfolioIds(d.df))
           /\ r.portfolios_flagged = Len(r.recommendations)
           /\ 0 <= r.portfolios_flagged
           /\ r.portfolios_flagged <= r.portfolios_analysed
           /\ d.df = <<>> <=> d.stage = "return_empty"
           /\ d.df = <<>> =>
                /\ r.portfolios_analysed = 0 /\ r.portfolios_flagged = 0
                /\ r.logs_written = 0 /\ r.recommendations = <<>>
                /\ d.opened = 1 /\ d.commits = 0 /\ d.log_rows = <<>>
                /\ d.log_at_end = d.log_at_start
  /\ \A p \in Procs :
       pc[p] = "return_empty" =>
         /\ advisor_map[p] = NoMap /\ today[p] = 0
         /\ opened[p] = 1 /\ pending[p] = <<>> /\ commits[p] = 0

\* C15 witness: a run has returned that flagged one portfolio of the two it
\* analysed, the other being worth nothing.
C15_Witness ==
  \E d \in Returns :
    /\ d.result[1].portfolios_analysed = 2
    /\ d.result[1].portfolios_flagged = 1
    /\ \E pid \in PortfolioIds(d.df) : PortfolioTotal(d.df, pid) = 0

Sign(x) == IF x > 0 THEN 1 ELSE IF x < 0 THEN -1 ELSE 0

\* Whether the quotient num / den is above 0, below 0.
Positive(num, den) == Sign(num) * Sign(den) > 0
Negative(num, den) == Sign(num) * Sign(den) < 0

OnePerClass(group) ==
  \A i, j \in 1..Len(group) : i # j => group[i].asset_class # group[j].asset_class

OnList(group) == \A i \in 1..Len(group) : group[i].asset_class \in TargetClasses

NonNegative(group) == \A i \in 1..Len(group) : group[i].class_value >= 0

\* The value held in asset classes that have no target weight.
OffListValue(group) ==
  SumValues(SelectSeq(group, LAMBDA r : r.asset_class \notin TargetClasses))

\* The unrounded drifts of the seven classes, summed, times total_value.
DriftSum(group) ==
  LET current == Current(group)
      total   == SumValues(group)
  IN  SumOver([c \in TargetClasses |-> Drift(current, c, total)], TargetClasses)

\* The drift table of a run agrees with the unrounded drifts and has the
\* seven target classes as its keys, as have the flagged classes.
OnlyTargetClasses(d) ==
  /\ \A e \in DriftsOf(d) :
       LET group == Group(d.df, e.portfolio_id)
       IN  /\ DOMAIN e.drifts = TargetClasses
           /\ \A c \in TargetClasses :
                e.drifts[c].drift_pct =
                  RoundDiv(Drift(Current(group), c, SumValues(group)), SumValues(group))
  /\ d.outcome = "returned" =>
       \A pid \in PortfolioIds(d.df) : FlaggedOf(d, pid) \subseteq TargetClasses

\* C16 as stated: for a portfolio of non-zero total with one row per asset
\* class and no negative class_value, the unrounded drifts of the seven
\* classes sum to 0 if every row carries a target class, and to a negative
\* value if some row carries another class; such a class is in neither the
\* drift table nor flagged_classes.
C16_OffListSumNegative ==
  \A d \in Finishes :
    /\ OnlyTargetClasses(d)
    /\ \A pid \in PortfolioIds(d.df) :
         LET group == Group(d.df, pid)
             total == SumValues(group)
         IN  (total # 0 /\ OnePerClass(group) /\ NonNegative(group)) =>
               /\ OnList(group) => DriftSum(group) = 0
               /\ ~OnList(group) => Negative(DriftSum(group), total)

\* C16, amended: for a portfolio of non-zero total with one row per asset
\* class, the unrounded drifts of the seven classes sum to minus the share of
\* total_value held outside the seven classes: to 0 if every row carries a
\* target class, so that an overweight class comes with an underweight one;
\* to a negative value if the rows of other classes hold a positive share;
\* and to 0 again if those rows are worth nothing.  A class outside the
\* seven is in neither the drift table nor flagged_classes.
C16_DriftsSum ==
  \A d \in Finishes :
    /\ OnlyTargetClasses(d)
    /\ \A pid \in PortfolioIds(d.df) :
         LET group   == Group(d.df, pid)
             total   == SumValues(group)
             current == Current(group)
         IN  (total # 0 /\ OnePerClass(group)) =>
               /\ DriftSum(group) = - 10000 * OffListValue(group)
               /\ OnList(group) =>
                    /\ DriftSum(group) = 0
                    /\ (\E c \in TargetClasses : Positive(Drift(current, c, total), total))
                         => \E c \in TargetClasses : Negative(Drift(current, c, total), total)
               /\ (~OnList(group) /\ Positive(OffListValue(group), total)) =>
                    Negative(DriftSum(group), total)
               /\ (~OnList(group) /\ OffListValue(group) = 0) => DriftSum(group) = 0

\* C16 witness: a run has analysed a portfolio whose rows all carry target
\* classes, one of them overweight, and a portfolio with a row of positive
\* value in a class outside the seven.
C16_Witness ==
  \E d \in Returns :
    \E e1, e2 \in DriftsOf(d) :
      LET g1 == Group(d.df, e1.portfolio_id)
          g2 == Group(d.df, e2.portfolio_id)
      IN  /\ OnePerClass(g1) /\ OnList(g1)
          /\ \E c \in TargetClasses : e1.drifts[c].drift_pct > 0
          /\ OnePerClass(g2) /\ ~OnList(g2)
          /\ OffListValue(g2) > 0 /\ SumValues(g2) > 0

====
